---- MODULE Spec2Model ----
(***************************************************************************)
(* A model of the rule-driven tokenizer (Lexer) of the parsing library:    *)
(* rule registration, the tokenize loop (match every template anchored at  *)
(* the scan offset, fold the candidates with best, accept the winner or    *)
(* raise UnexpectedCharacterError) and the final category filter; and of   *)
(* the token cursor grammars are written on (Parser over ParserBase).      *)
(*                                                                         *)
(* Texts are sequences of one-character strings.  A regular expression is  *)
(* a record of one of three shapes: a literal (/\n/), a greedy class       *)
(* repetition of one or more characters (/a+/) and a greedy class          *)
(* repetition of zero or more characters (/a*/).                           *)
(***************************************************************************)
EXTENDS Integers, Sequences, FiniteSets

\* ---------------------------------------------------------------- bounds
MaxLen == 3
MaxRules == 3

MaxTokens == MaxLen + 2

\* ------------------------------------------------------------- constants
NEWLINE == "\n"
MINUS == "-"
CARET == "^"

Alphabet == {"a", "1", NEWLINE}

Undefined == <<"undefined">>

\* --------------------------------------------------------------- helpers
RECURSIVE TextsOfLen(_)
TextsOfLen(n) ==
  IF n = 0 THEN {<<>>}
  ELSE {Append(t, c) : t \in TextsOfLen(n - 1), c \in Alphabet}

Texts == UNION {TextsOfLen(n) : n \in 0..MaxLen}

\* String.prototype.slice(k): the characters from 0-based index k on.
slice(s, k) == SubSeq(s, k + 1, Len(s))

\* String.prototype.repeat(n).
repeat(c, n) == [i \in 1..n |-> c]

\* String.prototype.split(sep): the separator-delimited pieces of s.
RECURSIVE split(_, _)
split(s, sep) ==
  IF \A i \in 1..Len(s) : s[i] # sep THEN <<s>>
  ELSE LET i == CHOOSE j \in 1..Len(s) :
                  s[j] = sep /\ \A k \in 1..(j - 1) : s[k] # sep
       IN <<SubSeq(s, 1, i - 1)>> \o split(SubSeq(s, i + 1, Len(s)), sep)

\* Array index that may be out of range (0-based, as in the source).
at(arr, i) == IF i + 1 \in 1..Len(arr) THEN arr[i + 1] ELSE Undefined

\* ------------------------------------------------------ regular expressions
Lit(s) == [kind |-> "lit", cls |-> {}, lit |-> s]
Plus(cls) == [kind |-> "plus", cls |-> cls, lit |-> <<>>]
Star(cls) == [kind |-> "star", cls |-> cls, lit |-> <<>>]

NoMatch == [index |-> -1, lexeme |-> <<>>]

\* Length of the longest run of characters of cls in s from 0-based index i.
RunLen(cls, s, i) ==
  CHOOSE n \in 0..(Len(s) - i) :
    /\ \A k \in 1..n : s[i + k] \in cls
    /\ (i + n < Len(s) => s[i + n + 1] \notin cls)

\* The lexeme the pattern matches starting exactly at 0-based index i of s,
\* wrapped in a sequence; <<>> when the pattern does not match there.
MatchAt(p, s, i) ==
  CASE p.kind = "lit" ->
         IF /\ i + Len(p.lit) <= Len(s)
            /\ SubSeq(s, i + 1, i + Len(p.lit)) = p.lit
         THEN <<p.lit>> ELSE <<>>
    [] p.kind = "plus" ->
         IF RunLen(p.cls, s, i) >= 1
         THEN <<SubSeq(s, i + 1, i + RunLen(p.cls, s, i))>> ELSE <<>>
    [] p.kind = "star" ->
         <<SubSeq(s, i + 1, i + RunLen(p.cls, s, i))>>

\* The leftmost match of p in s at or after 0-based index i.
RECURSIVE search(_, _, _)
search(s, p, i) ==
  IF i > Len(s) THEN NoMatch
  ELSE IF MatchAt(p, s, i) # <<>>
       THEN [index |-> i, lexeme |-> MatchAt(p, s, i)[1]]
       ELSE search(s, p, i + 1)

\* String.prototype.match(regexp) for a non-global expression: the leftmost
\* match in s, with its index, or NoMatch (null).
regexMatch(s, p) == search(s, p, 0)

\* --------------------------------------------------------------- callbacks
RECURSIVE parseInt(_)
parseInt(s) ==
  IF Len(s) = 0 THEN 0
  ELSE 10 * parseInt(SubSeq(s, 1, Len(s) - 1)) + (IF s[Len(s)] = "1" THEN 1 ELSE 0)

applyCallback(cb, lexeme) ==
  CASE cb = "parseInt" -> parseInt(lexeme)
    [] cb = "length" -> Len(lexeme)

\* ------------------------------------------------------------ rule catalogue
\* The rules a caller may register (TokenTemplate values).
Rule(tokenType, regexPattern, callback) ==
  [tokenType |-> tokenType, regexPattern |-> regexPattern, callback |-> callback]

RuleCatalogue ==
  { Rule("LETTER", Plus({"a"}), "length"),
    Rule("NEWLINE", Lit(<<NEWLINE>>), "undefined"),
    Rule("TEXT", Plus({"a", NEWLINE}), "undefined"),
    Rule("DIGIT", Plus({"1"}), "parseInt"),
    Rule("OPT", Star({"a"}), "undefined") }

FilterChoices == { {}, {"NEWLINE"}, {"LETTER", "OPT"} }

\* ------------------------------------------------------------------- state
VARIABLES
  templates,    \* Lexer.templates: the registered rules, in order
  tokens,       \* Lexer.tokens: the tokens accepted by the current pass
  start,        \* Lexer._start
  line,         \* Lexer._line
  column,       \* Lexer._column
  text,         \* the text argument of the current/last tokenize call
  filterTypes,  \* the filterTypes argument of the current/last tokenize call
  pc,           \* "ready", "scanning", "returned" or "thrown"
  result,       \* <<>> or <<the sequence tokenize returned>>
  error         \* <<>> or <<the UnexpectedCharacterError tokenize raised>>

\* The caller's view of rule registration and of repeated calls.
VARIABLES
  addRuleResult,  \* <<>> or <<the value the last addRule call returned>>
  prev,           \* how the instance stood when the current call was made
                  \* as a further call: "none", "returned" or "thrown"
  invocations     \* the calls the current/last tokenize call has made of the
                  \* rules' callbacks, in order

\* The token cursor (Parser over ParserBase).
VARIABLES
  parserTokens,     \* ParserBase.tokens
  currentPosition,  \* ParserBase.currentPosition
  errors,           \* ParserBase.errors: the soft-error messages
  source,           \* Parser.source
  call,             \* the last cursor operation, its arguments and outcome
  advances          \* in a walk of advance calls from position 0 (WalkSpec):
                    \* the number of advance calls made so far

vars == <<templates, tokens, start, line, column, text, filterTypes, pc,
          result, error>>

callerVars == <<addRuleResult, prev, invocations>>

cursorVars ==
  <<parserTokens, currentPosition, errors, source, call, advances>>

allVars == <<vars, callerVars, cursorVars>>

\* The tokenizer instance the model follows (the value of `this`).
thisLexer == "lexer"

\* ------------------------------------------------------------------- Token
Null == [tokenType |-> "null"]

Token(tokenType, lexeme, tstart, tend, tline, tcolumn) ==
  [tokenType |-> tokenType, lexeme |-> lexeme, start |-> tstart,
   end |-> tend, line |-> tline, column |-> tcolumn, value |-> {}]

length(token) == Len(token.lexeme)

\* ------------------------------------------------------------------- Lexer
\* adjust staying on the line at a newline.
RECURSIVE adjust_sameLine(_, _, _)
adjust_sameLine(lexeme, ln, col) ==
  IF Len(lexeme) = 0 THEN [line |-> ln, column |-> col]
  ELSE IF Head(lexeme) = NEWLINE
       THEN adjust_sameLine(Tail(lexeme), ln, 0)
       ELSE adjust_sameLine(Tail(lexeme), ln, col + 1)

\* Position after scanning the characters of lexeme from (ln, col).
RECURSIVE adjust(_, _, _)
adjust(lexeme, ln, col) ==
  IF Len(lexeme) = 0 THEN [line |-> ln, column |-> col]
  ELSE IF Head(lexeme) = NEWLINE
       THEN adjust(Tail(lexeme), ln + 1, 0)
       ELSE adjust(Tail(lexeme), ln, col + 1)

\* The single element of a one-element set; { e(x) : x \in {v} } names the
\* value v by x, as a local variable of the source does.
the(S) == CHOOSE x \in S : TRUE

\* match with the end offset taken relative to the sliced text.
match_relEnd(template, txt) ==
  the({ IF m = NoMatch THEN Null
        ELSE IF m.index # 0 THEN Null
        ELSE LET lexeme == m.lexeme
                 end == m.index + Len(lexeme)
                 pos == adjust(lexeme, line, column)
                 token == Token(template.tokenType, lexeme, start, end,
                                pos.line, pos.column)
             IN IF template.callback # "undefined"
                THEN [token EXCEPT
                        !.value = {applyCallback(template.callback, lexeme)}]
                ELSE token
        : m \in {regexMatch(slice(txt, start), template.regexPattern)} })

\* match without the check that the leftmost match is at index 0.
match_unanchored(template, txt) ==
  the({ IF m = NoMatch THEN Null
        ELSE LET lexeme == m.lexeme
                 end == start + Len(lexeme)
                 pos == adjust(lexeme, line, column)
                 token == Token(template.tokenType, lexeme, start, end,
                                pos.line, pos.column)
             IN IF template.callback # "undefined"
                THEN [token EXCEPT
                        !.value = {applyCallback(template.callback, lexeme)}]
                ELSE token
        : m \in {regexMatch(slice(txt, start), template.regexPattern)} })

\* match attaching the lexeme as the value when the rule has no callback.
match_valueAlways(template, txt) ==
  the({ IF m = NoMatch THEN Null
        ELSE IF m.index # 0 THEN Null
        ELSE LET lexeme == m.lexeme
                 end == start + Len(lexeme)
                 pos == adjust(lexeme, line, column)
                 token == Token(template.tokenType, lexeme, start, end,
                                pos.line, pos.column)
             IN IF template.callback # "undefined"
                THEN [token EXCEPT
                        !.value = {applyCallback(template.callback, lexeme)}]
                ELSE [token EXCEPT !.value = {Len(lexeme)}]
        : m \in {regexMatch(slice(txt, start), template.regexPattern)} })

\* match refusing an empty lexeme.
match_nonEmpty(template, txt) ==
  the({ IF m = NoMatch THEN Null
        ELSE IF m.index # 0 THEN Null
        ELSE IF Len(m.lexeme) = 0 THEN Null
        ELSE LET lexeme == m.lexeme
                 end == start + Len(lexeme)
                 pos == adjust(lexeme, line, column)
                 token == Token(template.tokenType, lexeme, start, end,
                                pos.line, pos.column)
             IN IF template.callback # "undefined"
                THEN [token EXCEPT
                        !.value = {applyCallback(template.callback, lexeme)}]
                ELSE token
        : m \in {regexMatch(slice(txt, start), template.regexPattern)} })

match(template, txt) ==
  the({ IF m = NoMatch THEN Null
        ELSE IF m.index # 0 THEN Null
        ELSE LET lexeme == m.lexeme
                 end == start + Len(lexeme)
                 pos == adjust(lexeme, line, column)
                 token == Token(template.tokenType, lexeme, start, end,
                                pos.line, pos.column)
             IN IF template.callback # "undefined"
                THEN [token EXCEPT
                        !.value = {applyCallback(template.callback, lexeme)}]
                ELSE token
        : m \in {regexMatch(slice(txt, start), template.regexPattern)} })

\* best keeping the first candidate whatever its length.
best_first(b, other) == b

\* best with a strict comparison: a later rule wins a tie.
best_strict(b, other) == IF length(b) > length(other) THEN b ELSE other

best(b, other) == IF length(b) >= length(other) THEN b ELSE other

\* The for-loop of tokenize over the templates from index i on, entered with
\* the local variable best holding b.
RECURSIVE bestOf(_, _)
bestOf(i, b) ==
  IF i > Len(templates) THEN b
  ELSE the({ IF token = Null THEN bestOf(i + 1, bst)
             ELSE IF bst = Null THEN bestOf(i + 1, token)
             ELSE bestOf(i + 1, best(bst, token))
             : token \in {match(templates[i], text)}, bst \in {b} })

\* The callback calls made by the for-loop of tokenize from index i on: match
\* calls the callback of every template it builds a token for.
RECURSIVE callbacksOf(_)
callbacksOf(i) ==
  IF i > Len(templates) THEN <<>>
  ELSE LET template == templates[i]
       IN (IF template.callback # "undefined" /\ match(template, text) # Null
           THEN <<[callback |-> template.callback,
                   tokenType |-> template.tokenType,
                   lexeme |-> match(template, text).lexeme,
                   start |-> start]>>
           ELSE <<>>) \o callbacksOf(i + 1)

\* The column update adding the consumed width after a reset as well.
acceptColumn_addWidth(token) ==
  IF token.line # line THEN 0 + (token.end - token.start)
  ELSE column + (token.end - token.start)

acceptColumn(token) ==
  IF token.line # line THEN 0 ELSE column + (token.end - token.start)

\* accept leaving the scan offset where it was.
accept_noAdvance(token) ==
  /\ tokens' = Append(tokens, token)
  /\ column' = acceptColumn(token)
  /\ start' = start
  /\ line' = token.line

\* accept advancing the scan offset by one character.
accept_oneChar(token) ==
  /\ tokens' = Append(tokens, token)
  /\ column' = acceptColumn(token)
  /\ start' = start + 1
  /\ line' = token.line

accept(token) ==
  /\ tokens' = Append(tokens, token)
  /\ column' = acceptColumn(token)
  /\ start' = token.end
  /\ line' = token.line

UnexpectedCharacterError(excerpt, ln, col) ==
  LET c == IF col <= 0 THEN 1 ELSE col
      arrow == Append(repeat(MINUS, c), CARET)
  IN [excerpt |-> excerpt, line |-> ln, column |-> c, arrow |-> arrow]

\* filter keeping the listed categories instead of dropping them.
RECURSIVE filter_keepListed(_, _)
filter_keepListed(toks, types) ==
  IF Len(toks) = 0 THEN <<>>
  ELSE IF Head(toks).tokenType \in types
       THEN <<Head(toks)>> \o filter_keepListed(Tail(toks), types)
       ELSE filter_keepListed(Tail(toks), types)

RECURSIVE filter(_, _)
filter(toks, types) ==
  IF Len(toks) = 0 THEN <<>>
  ELSE IF Head(toks).tokenType \notin types
       THEN <<Head(toks)>> \o filter(Tail(toks), types)
       ELSE filter(Tail(toks), types)

\* ----------------------------------------------------------------- actions
Init ==
  /\ templates = <<>>
  /\ tokens = <<>>
  /\ start = 0
  /\ line = 0
  /\ column = 0
  /\ text = <<>>
  /\ filterTypes = {}
  /\ pc = "ready"
  /\ result = <<>>
  /\ error = <<>>
  /\ addRuleResult = <<>>
  /\ prev = "none"
  /\ invocations = <<>>
  /\ parserTokens = <<>>
  /\ currentPosition = 0
  /\ errors = <<>>
  /\ source = <<>>
  /\ call = [op |-> "new", args |-> <<>>, ret |-> <<>>, thrown |-> <<>>]
  /\ advances = 0

\* addRule inserting the new rule before the registered ones.
AddRule_prepend ==
  /\ pc # "scanning"
  /\ Len(templates) < MaxRules
  /\ \E r \in RuleCatalogue : templates' = <<r>> \o templates
  /\ addRuleResult' = <<[instance |-> thisLexer, templates |-> templates']>>
  /\ UNCHANGED <<tokens, start, line, column, text, filterTypes, pc, result, error>>
  /\ UNCHANGED <<prev, invocations, cursorVars>>

\* addRule registering the rule on a copy and returning the copy.
AddRule_clone ==
  /\ pc # "scanning"
  /\ Len(templates) < MaxRules
  /\ \E r \in RuleCatalogue :
       addRuleResult' = <<[instance |-> "copy", templates |-> Append(templates, r)]>>
  /\ UNCHANGED <<templates, tokens, start, line, column, text, filterTypes, pc,
                 result, error>>
  /\ UNCHANGED <<prev, invocations, cursorVars>>

AddRule ==
  /\ pc # "scanning"
  /\ Len(templates) < MaxRules
  /\ \E r \in RuleCatalogue : templates' = Append(templates, r)
  /\ addRuleResult' = <<[instance |-> thisLexer, templates |-> templates']>>
  /\ UNCHANGED <<tokens, start, line, column, text, filterTypes, pc, result, error>>
  /\ UNCHANGED <<prev, invocations, cursorVars>>

\* The prologue of tokenize without the reset of the line tracker.
beginTokenize_keepLine(t, f) ==
  /\ text' = t
  /\ filterTypes' = f
  /\ tokens' = <<>>
  /\ start' = 0
  /\ column' = 0
  /\ line' = line
  /\ pc' = "scanning"
  /\ result' = <<>>
  /\ error' = <<>>
  /\ invocations' = <<>>
  /\ UNCHANGED <<templates, addRuleResult>>

\* The prologue of tokenize(t, ...f): everything before the loop.
beginTokenize(t, f) ==
  /\ text' = t
  /\ filterTypes' = f
  /\ tokens' = <<>>
  /\ start' = 0
  /\ column' = 0
  /\ line' = 0
  /\ pc' = "scanning"
  /\ result' = <<>>
  /\ error' = <<>>
  /\ invocations' = <<>>
  /\ UNCHANGED <<templates, addRuleResult>>

\* tokenize, up to the loop.
Tokenize ==
  /\ pc # "scanning"
  /\ \E t \in Texts, f \in FilterChoices : beginTokenize(t, f)
  /\ UNCHANGED <<prev, cursorVars>>

\* One iteration of the while loop in which some template matched.
LoopAccept ==
  /\ pc = "scanning"
  /\ start < Len(text)
  /\ Len(tokens) < MaxTokens
  /\ \E bst \in {bestOf(1, Null)} : bst # Null /\ accept(bst)
  /\ invocations' = invocations \o callbacksOf(1)
  /\ UNCHANGED <<templates, text, filterTypes, pc, result, error>>
  /\ UNCHANGED <<addRuleResult, prev, cursorVars>>

\* The failing iteration handing the tokens matched so far to the caller.
LoopThrow_partial ==
  /\ pc = "scanning"
  /\ start < Len(text)
  /\ bestOf(1, Null) = Null
  /\ error' = <<UnexpectedCharacterError(at(split(text, NEWLINE), line), line, column)>>
  /\ result' = <<filter(tokens, filterTypes)>>
  /\ pc' = "thrown"
  /\ UNCHANGED <<templates, tokens, start, line, column, text, filterTypes>>
  /\ UNCHANGED <<callerVars, cursorVars>>

\* One iteration of the while loop in which no template matched.
LoopThrow ==
  /\ pc = "scanning"
  /\ start < Len(text)
  /\ bestOf(1, Null) = Null
  /\ error' = <<UnexpectedCharacterError(at(split(text, NEWLINE), line), line, column)>>
  /\ pc' = "thrown"
  /\ UNCHANGED <<templates, tokens, start, line, column, text, filterTypes, result>>
  /\ UNCHANGED <<callerVars, cursorVars>>

\* The loop condition fails: filter and return.
Return ==
  /\ pc = "scanning"
  /\ ~(start < Len(text))
  /\ result' = <<filter(tokens, filterTypes)>>
  /\ pc' = "returned"
  /\ UNCHANGED <<templates, tokens, start, line, column, text, filterTypes, error>>
  /\ UNCHANGED <<callerVars, cursorVars>>

Next == AddRule \/ Tokenize \/ LoopAccept \/ LoopThrow \/ Return

Spec == Init /\ [][Next]_vars

\* The behaviours of Spec with a single tokenize call: rules are registered
\* on the fresh tokenizer, tokenize is called once and runs to its end.  The
\* call is synchronous, so an enabled step of its loop is always taken.
Register == pc = "ready" /\ AddRule

FirstCall == pc = "ready" /\ Tokenize

NextCall == Register \/ FirstCall \/ LoopAccept \/ LoopThrow \/ Return

CallSpec ==
  Init /\ [][NextCall]_vars
    /\ WF_vars(LoopAccept) /\ WF_vars(LoopThrow) /\ WF_vars(Return)

\* The behaviours in which one instance is called again and again once its
\* rules are registered; prev remembers how the previous call ended.
Retokenize ==
  /\ pc \in {"returned", "thrown"}
  /\ \E t \in Texts, f \in FilterChoices : beginTokenize(t, f)
  /\ prev' = pc
  /\ UNCHANGED cursorVars

NextReuse ==
  Register \/ FirstCall \/ Retokenize \/ LoopAccept \/ LoopThrow \/ Return

ReuseSpec == Init /\ [][NextReuse]_allVars

\* ------------------------------------------------- an overridden best()
\* best is a protected method meant to be overridden.  An override that
\* returns one of its two arguments is, at the comparison made for the i-th
\* template, a choice between them: choices[i] says whether it keeps the
\* current best.
overriddenBest(choices, i, b, other) == IF choices[i] THEN b ELSE other

BestChoices == [1..Len(templates) -> BOOLEAN]

\* The for-loop of tokenize running over the templates from the last one
\* down to the first.
RECURSIVE bestOfWith_reverse(_, _, _)
bestOfWith_reverse(choices, i, b) ==
  IF i > Len(templates) THEN b
  ELSE the({ IF token = Null THEN bestOfWith_reverse(choices, i + 1, bst)
             ELSE IF bst = Null THEN bestOfWith_reverse(choices, i + 1, token)
             ELSE bestOfWith_reverse(choices, i + 1,
                                     overriddenBest(choices, i, bst, token))
             : token \in {match(templates[Len(templates) + 1 - i], text)},
               bst \in {b} })

\* The for-loop of tokenize in a subclass overriding best, from index i on.
RECURSIVE bestOfWith(_, _, _)
bestOfWith(choices, i, b) ==
  IF i > Len(templates) THEN b
  ELSE the({ IF token = Null THEN bestOfWith(choices, i + 1, bst)
             ELSE IF bst = Null THEN bestOfWith(choices, i + 1, token)
             ELSE bestOfWith(choices, i + 1,
                             overriddenBest(choices, i, bst, token))
             : token \in {match(templates[i], text)}, bst \in {b} })

\* One accepting iteration of the while loop in such a subclass.
LoopAcceptWith ==
  /\ pc = "scanning"
  /\ start < Len(text)
  /\ Len(tokens) < MaxTokens
  /\ \E choices \in BestChoices :
       \E bst \in {bestOfWith(choices, 1, Null)} : bst # Null /\ accept(bst)
  /\ invocations' = invocations \o callbacksOf(1)
  /\ UNCHANGED <<templates, text, filterTypes, pc, result, error>>
  /\ UNCHANGED <<addRuleResult, prev, cursorVars>>

NextOverridden ==
  Register \/ FirstCall \/ LoopAcceptWith \/ LoopThrow \/ Return

OverriddenSpec == Init /\ [][NextOverridden]_vars

\* ------------------------------------------------ a fresh tokenizer's call
\* Lexer.match at the scan state (st, ln, col).
matchFrom(template, txt, st, ln, col) ==
  the({ IF m = NoMatch THEN Null
        ELSE IF m.index # 0 THEN Null
        ELSE LET lexeme == m.lexeme
                 end == st + Len(lexeme)
                 pos == adjust(lexeme, ln, col)
                 token == Token(template.tokenType, lexeme, st, end,
                                pos.line, pos.column)
             IN IF template.callback # "undefined"
                THEN [token EXCEPT
                        !.value = {applyCallback(template.callback, lexeme)}]
                ELSE token
        : m \in {regexMatch(slice(txt, st), template.regexPattern)} })

\* The for-loop of tokenize over rules from index i on, at (st, ln, col).
RECURSIVE bestFrom(_, _, _, _, _, _, _)
bestFrom(rules, i, b, txt, st, ln, col) ==
  IF i > Len(rules) THEN b
  ELSE the({ IF token = Null THEN bestFrom(rules, i + 1, bst, txt, st, ln, col)
             ELSE IF bst = Null THEN bestFrom(rules, i + 1, token, txt, st, ln, col)
             ELSE bestFrom(rules, i + 1, best(bst, token), txt, st, ln, col)
             : token \in {matchFrom(rules[i], txt, st, ln, col)}, bst \in {b} })

\* The while loop of tokenize from the state (toks, st, ln, col) to the end
\* of the call: how it ends, what it returns and what it raises.  A pass
\* that outgrows MaxTokens has not ended.
RECURSIVE loopFrom(_, _, _, _, _, _, _)
loopFrom(rules, txt, types, toks, st, ln, col) ==
  IF ~(st < Len(txt))
  THEN [pc |-> "returned", result |-> <<filter(toks, types)>>, error |-> <<>>]
  ELSE IF Len(toks) >= MaxTokens
  THEN [pc |-> "scanning", result |-> <<>>, error |-> <<>>]
  ELSE the({ IF bst = Null
             THEN [pc |-> "thrown", result |-> <<>>,
                   error |-> <<UnexpectedCharacterError(
                                 at(split(txt, NEWLINE), ln), ln, col)>>]
             ELSE loopFrom(rules, txt, types, Append(toks, bst), bst.end,
                           bst.line,
                           IF bst.line # ln THEN 0
                           ELSE col + (bst.end - bst.start))
             : bst \in {bestFrom(rules, 1, Null, txt, st, ln, col)} })

\* tokenize(txt, ...types) on a newly constructed tokenizer holding rules.
freshTokenize(rules, txt, types) == loopFrom(rules, txt, types, <<>>, 0, 0, 0)

\* ------------------------------------------------------------ token cursor
\* The cursor a grammar is written on: Parser (check, makeErrorMsg, source)
\* over ParserBase (position, token sequence, soft errors and the primitive
\* operations).  A message is a sequence of string fragments whose
\* concatenation is the string.

\* bound on the number of soft errors recorded between two resets
MaxErrors == 2

\* The categories a grammar asks for and the messages it supplies.
Identifiers == {"LETTER", "DIGIT"}

Messages == { <<"Expected letter">>, <<"Expected digit">> }

\* The argument lists of match: one or two categories.
IdentifierLists ==
  {<<c>> : c \in Identifiers}
    \cup {<<c, e>> : c \in Identifiers, e \in Identifiers}

\* The grammar's tokenizer: a static rule table, line breaks filtered out.
GrammarLexer ==
  << Rule("LETTER", Plus({"a"}), "undefined"),
     Rule("DIGIT", Plus({"1"}), "parseInt"),
     Rule("NEWLINE", Lit(<<NEWLINE>>), "undefined") >>

GrammarFilter == {"NEWLINE"}

\* GrammarLexer.tokenize(input, ...GrammarFilter), for every input.
GrammarTokens ==
  [input \in Texts |->
     freshTokenize(GrammarLexer, input, GrammarFilter).result[1]]

\* A call of a cursor operation: its arguments, and what it returned or
\* what it raised.
Call(op, args, ret, thrown) ==
  [op |-> op, args |-> args, ret |-> ret, thrown |-> thrown]

\* Template-literal interpolation of a number: its decimal digits.
Digits == <<"0", "1", "2", "3", "4", "5", "6", "7", "8", "9">>

RECURSIVE toString(_)
toString(n) ==
  IF n < 10 THEN <<Digits[n + 1]>>
  ELSE toString(n \div 10) \o <<Digits[(n % 10) + 1]>>

\* String.prototype.includes for a single character.
includes(s, c) == \E i \in 1..Len(s) : s[i] = c

\* isAtEnd holding only beyond the last position.
isAtEnd_strict == currentPosition > Len(parserTokens)

isAtEnd == currentPosition >= Len(parserTokens)

\* lookAround counting a negative index from the end of the tokens.
lookAround_fromEnd(offset) ==
  LET index == currentPosition + offset
  IN IF index >= Len(parserTokens) \/ Len(parserTokens) + index < 0 THEN Null
     ELSE IF index < 0 THEN parserTokens[Len(parserTokens) + index + 1]
     ELSE parserTokens[index + 1]

lookAround(offset) ==
  LET index == currentPosition + offset
  IN IF index < 0 \/ index >= Len(parserTokens) THEN Null
     ELSE parserTokens[index + 1]

previous == lookAround(-1)

current == lookAround(0)

\* peek looking at the current token.
peek_current == lookAround(0)

peek == lookAround(1)

peekNext == lookAround(2)

hadError == Len(errors) > 0

\* check comparing the category of the token before the position.
check_previous(identifier) ==
  IF previous = Null THEN FALSE ELSE previous.tokenType = identifier

\* Parser.check: current()?.tokenType == identifier.
check(identifier) ==
  IF current = Null THEN FALSE ELSE current.tokenType = identifier

\* makeErrorMsg returning the diagram without the caller's message.
makeErrorMsg_diagramOnly(errorMsg) ==
  LET token == at(parserTokens, currentPosition - 1)
      tCol == IF currentPosition # 0 THEN token.column ELSE 0
      tLine == IF currentPosition # 0 THEN token.line ELSE 0
      arrow == repeat(MINUS, tCol) \o <<CARET>>
      excerpt == IF includes(source, NEWLINE)
                 THEN at(split(source, NEWLINE), tLine)
                 ELSE source
  IN <<"Near here (column ">> \o toString(tCol) \o <<" on line ">>
       \o toString(tLine) \o <<"):\n\t\t">> \o excerpt \o <<"\n\t\t">>
       \o arrow

\* makeErrorMsg locating the token at the position, when there is one.
makeErrorMsg_atPosition(errorMsg) ==
  LET token == IF currentPosition < Len(parserTokens)
               THEN at(parserTokens, currentPosition)
               ELSE at(parserTokens, currentPosition - 1)
      tCol == IF currentPosition # 0 THEN token.column ELSE 0
      tLine == IF currentPosition # 0 THEN token.line ELSE 0
      arrow == repeat(MINUS, tCol) \o <<CARET>>
      excerpt == IF includes(source, NEWLINE)
                 THEN at(split(source, NEWLINE), tLine)
                 ELSE source
      diagram == <<"Near here (column ">> \o toString(tCol)
                   \o <<" on line ">> \o toString(tLine) \o <<"):\n\t\t">>
                   \o excerpt \o <<"\n\t\t">> \o arrow
  IN errorMsg \o <<": \n\t">> \o diagram

\* Parser.makeErrorMsg: the message followed by the diagram of the place
\* just before the position.
makeErrorMsg(errorMsg) ==
  LET token == at(parserTokens, currentPosition - 1)
      tCol == IF currentPosition # 0 THEN token.column ELSE 0
      tLine == IF currentPosition # 0 THEN token.line ELSE 0
      arrow == repeat(MINUS, tCol) \o <<CARET>>
      excerpt == IF includes(source, NEWLINE)
                 THEN at(split(source, NEWLINE), tLine)
                 ELSE source
      diagram == <<"Near here (column ">> \o toString(tCol)
                   \o <<" on line ">> \o toString(tLine) \o <<"):\n\t\t">>
                   \o excerpt \o <<"\n\t\t">> \o arrow
  IN errorMsg \o <<": \n\t">> \o diagram

\* advance stepping over two tokens.
advance_skip == [ret |-> at(parserTokens, currentPosition),
                 position |-> currentPosition + 2]

\* advance: the token at the position, and the position after it.
advance == [ret |-> at(parserTokens, currentPosition),
            position |-> currentPosition + 1]

\* match moving past the current token also when no category fits.
RECURSIVE matchAny_advanceOnFail(_, _)
matchAny_advanceOnFail(identifiers, i) ==
  IF i > Len(identifiers)
  THEN [ret |-> FALSE,
        position |-> IF isAtEnd THEN currentPosition ELSE advance.position]
  ELSE IF check(identifiers[i])
       THEN [ret |-> TRUE, position |-> advance.position]
       ELSE matchAny_advanceOnFail(identifiers, i + 1)

\* match(...identifiers) from the i-th argument on.
RECURSIVE matchAny(_, _)
matchAny(identifiers, i) ==
  IF i > Len(identifiers)
  THEN [ret |-> FALSE, position |-> currentPosition]
  ELSE IF check(identifiers[i])
       THEN [ret |-> TRUE, position |-> advance.position]
       ELSE matchAny(identifiers, i + 1)

\* consume whose failure forgets the errors recorded before it.
consume_forget(identifier, errorMsg) ==
  IF check(identifier)
  THEN [ret |-> <<advance.ret>>, thrown |-> <<>>,
        position |-> advance.position, errors |-> errors]
  ELSE LET msg == makeErrorMsg(errorMsg)
       IN [ret |-> <<>>, thrown |-> <<msg>>,
           position |-> currentPosition, errors |-> <<msg>>]

\* consume(identifier, errorMsg): what it returns or raises, and the
\* position and error list it leaves.
consume(identifier, errorMsg) ==
  IF check(identifier)
  THEN [ret |-> <<advance.ret>>, thrown |-> <<>>,
        position |-> advance.position, errors |-> errors]
  ELSE LET msg == makeErrorMsg(errorMsg)
       IN [ret |-> <<>>, thrown |-> <<msg>>,
           position |-> currentPosition, errors |-> Append(errors, msg)]

\* reset leaving the recorded errors in place.
Reset_keepErrors ==
  /\ currentPosition' = 0
  /\ parserTokens' = <<>>
  /\ errors' = errors
  /\ call' = Call("reset", <<>>, <<>>, <<>>)
  /\ UNCHANGED <<source, vars, callerVars, advances>>

Reset ==
  /\ currentPosition' = 0
  /\ parserTokens' = <<>>
  /\ errors' = <<>>
  /\ call' = Call("reset", <<>>, <<>>, <<>>)
  /\ UNCHANGED <<source, vars, callerVars, advances>>

\* The prologue of a grammar's parse(input): reset, keep the input as the
\* source, tokenize it with the grammar's tokenizer.
LoadCall(input) ==
  /\ currentPosition' = 0
  /\ errors' = <<>>
  /\ source' = input
  /\ parserTokens' = GrammarTokens[input]
  /\ call' = Call("parse", <<input>>, <<>>, <<>>)
  /\ UNCHANGED <<vars, callerVars>>

Load == \E input \in Texts : LoadCall(input) /\ UNCHANGED advances

\* advance(), called as its contract demands: only while not at the end.
AdvanceCall ==
  /\ ~isAtEnd
  /\ currentPosition' = advance.position
  /\ call' = Call("advance", <<>>, <<advance.ret>>, <<>>)
  /\ UNCHANGED <<parserTokens, errors, source, vars, callerVars>>

Advance == AdvanceCall /\ UNCHANGED advances

MatchCall(identifiers) ==
  /\ currentPosition' = matchAny(identifiers, 1).position
  /\ call' = Call("match", identifiers, <<matchAny(identifiers, 1).ret>>, <<>>)
  /\ UNCHANGED <<parserTokens, errors, source, vars, callerVars, advances>>

Match == \E identifiers \in IdentifierLists : MatchCall(identifiers)

ConsumeCall(identifier, errorMsg) ==
  /\ check(identifier) \/ Len(errors) < MaxErrors
  /\ currentPosition' = consume(identifier, errorMsg).position
  /\ errors' = consume(identifier, errorMsg).errors
  /\ call' = Call("consume", <<identifier, errorMsg>>,
                  consume(identifier, errorMsg).ret,
                  consume(identifier, errorMsg).thrown)
  /\ UNCHANGED <<parserTokens, source, vars, callerVars, advances>>

Consume ==
  \E identifier \in Identifiers, errorMsg \in Messages :
    ConsumeCall(identifier, errorMsg)

\* addError keeping only the newest message.
AddError_replace ==
  /\ Len(errors) < MaxErrors
  /\ \E message \in Messages :
       /\ errors' = <<message>>
       /\ call' = Call("addError", <<message>>, <<message>>, <<>>)
  /\ UNCHANGED <<parserTokens, currentPosition, source, vars, callerVars,
                 advances>>

AddError ==
  /\ Len(errors) < MaxErrors
  /\ \E message \in Messages :
       /\ errors' = Append(errors, message)
       /\ call' = Call("addError", <<message>>, <<message>>, <<>>)
  /\ UNCHANGED <<parserTokens, currentPosition, source, vars, callerVars,
                 advances>>

\* The lookups: previous, current, peek and peekNext through lookAround.
Lookup ==
  /\ \E offset \in -1..2 :
       call' = Call("lookAround", <<offset>>, <<lookAround(offset)>>,
                    <<>>)
  /\ UNCHANGED <<parserTokens, currentPosition, errors, source, vars,
                 callerVars, advances>>

CursorNext ==
  Reset \/ Load \/ Advance \/ Match \/ Consume \/ AddError \/ Lookup

CursorSpec == Init /\ [][CursorNext]_allVars

\* The walks a grammar makes over a loaded token sequence with advance alone
\* (and lookups in between); advances counts the advance calls of the walk.
WalkLoad == \E input \in Texts : LoadCall(input) /\ advances' = 0

WalkAdvance == AdvanceCall /\ advances' = advances + 1

WalkNext == WalkLoad \/ WalkAdvance \/ Lookup

WalkSpec == Init /\ [][WalkNext]_allVars

\* The other lookups of the cursor: isAtEnd, hadError, check, makeErrorMsg.
Query ==
  /\ \/ call' = Call("isAtEnd", <<>>, <<isAtEnd>>, <<>>)
     \/ call' = Call("hadError", <<>>, <<hadError>>, <<>>)
     \/ \E identifier \in Identifiers :
          call' = Call("check", <<identifier>>, <<check(identifier)>>, <<>>)
     \/ \E errorMsg \in Messages :
          call' = Call("makeErrorMsg", <<errorMsg>>,
                       <<makeErrorMsg(errorMsg)>>, <<>>)
  /\ UNCHANGED <<parserTokens, currentPosition, errors, source, vars,
                 callerVars, advances>>

\* The cursor under all its operations, lookups included.
QueryNext == CursorNext \/ Query

QuerySpec == Init /\ [][QueryNext]_allVars

\* ------------------------------------------------- the TileScript grammar
\* The example grammar TileScriptParser: a parse loop with error recovery
\* over statements of the form  keyword arguments ;

\* bound on the length of the token sequences parse is run on
MaxTileLen == 4

\* TokenType, without the filtered WHITESPACE.
TokenType ==
  {"move", "build", "inventory", "information", "extract", "attack", "comma",
   "semicolon", "identifier", "integer", "l_paren", "r_paren"}

\* What tileScriptLexer.tokenize hands to the grammar, by categories: every
\* token one character wide on line 0, its category standing for its lexeme.
TileInputs == UNION { [1..n -> TokenType] : n \in 0..MaxTileLen }

TileTokens(input) ==
  [i \in 1..Len(input) |-> Token(input[i], <<input[i]>>, i - 1, i, 0, i)]

\* The cursor inside a derivation: the position, the error list and whether
\* an error is propagating to the catch of the parse loop.
Derivation(pos, errs) == [pos |-> pos, errs |-> errs, thrown |-> FALSE]

\* Parser.check with the position at p.
checkAt(p, identifier) ==
  /\ p >= 0
  /\ p < Len(parserTokens)
  /\ parserTokens[p + 1].tokenType = identifier

\* Parser.makeErrorMsg with the position at p.
makeErrorMsgAt(p, errorMsg) ==
  LET token == at(parserTokens, p - 1)
      tCol == IF p # 0 THEN token.column ELSE 0
      tLine == IF p # 0 THEN token.line ELSE 0
      arrow == repeat(MINUS, tCol) \o <<CARET>>
      excerpt == IF includes(source, NEWLINE)
                 THEN at(split(source, NEWLINE), tLine)
                 ELSE source
      diagram == <<"Near here (column ">> \o toString(tCol)
                   \o <<" on line ">> \o toString(tLine) \o <<"):\n\t\t">>
                   \o excerpt \o <<"\n\t\t">> \o arrow
  IN errorMsg \o <<": \n\t">> \o diagram

\* advance() in a derivation.
advanceIn(r) == IF r.thrown THEN r ELSE [r EXCEPT !.pos = @ + 1]

\* match(identifier) in a derivation, its result unused.
matchIn(r, identifier) ==
  IF r.thrown THEN r
  ELSE IF checkAt(r.pos, identifier) THEN advanceIn(r) ELSE r

\* consume(identifier, errorMsg) in a derivation.
consumeIn(r, identifier, errorMsg) ==
  IF r.thrown THEN r
  ELSE IF checkAt(r.pos, identifier) THEN advanceIn(r)
  ELSE [r EXCEPT !.thrown = TRUE,
                 !.errs = Append(@, makeErrorMsgAt(r.pos, errorMsg))]

\* parseIdentifier: advance().lexeme; at the end of the tokens advance
\* returns no token and reading its lexeme raises a TypeError.
parseIdentifier(r) ==
  IF r.thrown THEN r
  ELSE IF r.pos < Len(parserTokens) THEN advanceIn(r)
  ELSE [advanceIn(r) EXCEPT !.thrown = TRUE]

innerParse(r) ==
  consumeIn(
    matchIn(
      consumeIn(r, "integer", <<"Coordinate 'x' must be an integer">>),
      "comma"),
    "integer", <<"Coordinate 'y' must be an integer">>)

parseCoordinates(r) ==
  IF r.thrown THEN r
  ELSE IF checkAt(r.pos, "l_paren")
       THEN consumeIn(innerParse(advanceIn(r)), "r_paren",
              <<"Coordinates with open parenthesis must have closing parenthesis">>)
       ELSE innerParse(r)

\* The arguments of information, after the keyword.
informationArguments(r) ==
  parseCoordinates(IF checkAt(r.pos, "identifier") THEN parseIdentifier(r)
                   ELSE r)

\* The arguments of move, after the keyword.
moveArguments(r) ==
  IF checkAt(r.pos, "identifier")
  THEN LET first == parseIdentifier(r)
       IN IF checkAt(first.pos, "identifier") THEN parseIdentifier(first)
          ELSE parseCoordinates(first)
  ELSE parseIdentifier(parseCoordinates(r))

\* The arguments of attack, after the keyword.
attackArguments(r) ==
  IF checkAt(r.pos, "identifier")
  THEN LET first == parseIdentifier(r)
       IN IF checkAt(first.pos, "identifier") THEN parseIdentifier(first)
          ELSE parseCoordinates(first)
  ELSE r

\* The arguments of extract and of build, after the keyword.
extractArguments(r) ==
  IF checkAt(r.pos, "identifier")
  THEN LET first == parseIdentifier(r)
       IN IF checkAt(first.pos, "identifier")
          THEN parseCoordinates(parseIdentifier(first))
          ELSE parseIdentifier(parseCoordinates(first))
  ELSE parseIdentifier(parseIdentifier(parseCoordinates(r)))

parseCrudOperation(r) ==
  LET arguments ==
        IF checkAt(r.pos, "inventory") THEN advanceIn(r)
        ELSE IF checkAt(r.pos, "information")
             THEN informationArguments(advanceIn(r))
        ELSE IF checkAt(r.pos, "move") THEN moveArguments(advanceIn(r))
        ELSE IF checkAt(r.pos, "attack") THEN attackArguments(advanceIn(r))
        ELSE IF checkAt(r.pos, "extract") THEN extractArguments(advanceIn(r))
        ELSE IF checkAt(r.pos, "build") THEN extractArguments(advanceIn(r))
        ELSE [r EXCEPT !.thrown = TRUE]
  IN consumeIn(arguments, "semicolon",
               <<"Game statements must end with a semicolon">>)

parseStatement(r) == parseCrudOperation(r)

\* synchronize entered with the position at p: the position it returns at.
RECURSIVE synchronize(_)
synchronize(p) ==
  IF ~(p < Len(parserTokens)) THEN p
  ELSE IF p = 0 THEN synchronize(p + 1)
  ELSE IF parserTokens[p].tokenType = "semicolon" THEN p
  ELSE synchronize(p + 1)

\* parse(input) up to its loop, on a newly constructed parser.
TileParse ==
  /\ call.op = "new"
  /\ \E input \in TileInputs :
       /\ parserTokens' = TileTokens(input)
       /\ source' = input
  /\ currentPosition' = 0
  /\ errors' = <<>>
  /\ call' = Call("parse", <<>>, <<>>, <<>>)
  /\ UNCHANGED <<vars, callerVars, advances>>

\* The loop of parse is at its condition.
AtLoopCondition ==
  \/ call.op \in {"parse", "synchronize"}
  \/ call.op = "parseStatement" /\ call.thrown = <<>>

\* One iteration of the loop up to the end of its try block; args keeps the
\* position the iteration started at.
TileStatement ==
  /\ AtLoopCondition
  /\ ~isAtEnd
  /\ \E r \in {parseStatement(Derivation(currentPosition, errors))} :
       /\ currentPosition' = r.pos
       /\ errors' = r.errs
       /\ call' = Call("parseStatement", <<currentPosition>>,
                       IF r.thrown THEN <<>> ELSE <<"CrudOperation">>,
                       IF r.thrown THEN <<"Error">> ELSE <<>>)
  /\ UNCHANGED <<parserTokens, source, vars, callerVars, advances>>

\* The catch block of the iteration.
TileSynchronize ==
  /\ call.op = "parseStatement"
  /\ call.thrown # <<>>
  /\ currentPosition' = synchronize(currentPosition)
  /\ call' = Call("synchronize", call.args, <<>>, <<>>)
  /\ UNCHANGED <<parserTokens, errors, source, vars, callerVars, advances>>

\* The loop is left: parse raises the collected errors or returns.
TileReturn ==
  /\ AtLoopCondition
  /\ isAtEnd
  /\ call' = Call("return", <<>>,
                  IF hadError THEN <<>> ELSE <<"expressions">>,
                  IF hadError THEN <<"Error">> ELSE <<>>)
  /\ UNCHANGED <<parserTokens, currentPosition, errors, source, vars,
                 callerVars, advances>>

TileNext == TileParse \/ TileStatement \/ TileSynchronize \/ TileReturn

\* parse runs to completion once called: an enabled step of it is taken.
TileSpec ==
  Init /\ [][TileNext]_allVars
    /\ WF_allVars(TileStatement) /\ WF_allVars(TileSynchronize)
    /\ WF_allVars(TileReturn)

\* ------------------------------------------------------- claim vocabulary
\* The lexemes of a token sequence, concatenated in order.
RECURSIVE Concat(_)
Concat(toks) ==
  IF Len(toks) = 0 THEN <<>> ELSE Head(toks).lexeme \o Concat(Tail(toks))

\* A pattern that can match zero characters.
CanMatchEmpty(p) == MatchAt(p, <<>>, 0) # <<>>

NoZeroWidth ==
  \A j \in 1..Len(templates) : ~CanMatchEmpty(templates[j].regexPattern)

\* The lexeme rule j matches anchored at offset k of the text (<<>>: none).
Anchored(j, k) == MatchAt(templates[j].regexPattern, text, k)

\* The rules that match anchored at offset k.
Candidates(k) == {j \in 1..Len(templates) : Anchored(j, k) # <<>>}

CandLen(j, k) == Len(Anchored(j, k)[1])

MaxCandLen(k) ==
  CHOOSE n \in 0..Len(text) :
    /\ \E j \in Candidates(k) : CandLen(j, k) = n
    /\ \A j \in Candidates(k) : CandLen(j, k) <= n

Longest(k) == {j \in Candidates(k) : CandLen(j, k) = MaxCandLen(k)}

Min(S) == CHOOSE x \in S : \A y \in S : x <= y

Max(S) == CHOOSE x \in S : \A y \in S : x >= y

\* The 1-based positions of the newlines among the first k characters.
NewlinePositions(k) == {i \in 1..k : text[i] = NEWLINE}

\* The number of newlines in text[0, k).
NewlinesBefore(k) == Cardinality(NewlinePositions(k))

\* The number of characters between the last newline before offset k (or
\* the start of the text) and offset k.
CharsSinceNewline(k) ==
  IF NewlinePositions(k) = {} THEN k ELSE k - Max(NewlinePositions(k))

HasNewline(lexeme) == \E i \in 1..Len(lexeme) : lexeme[i] = NEWLINE

\* The newline-delimited line number n (0-based) of the text.
LineOfText(n) ==
  LET nl == NewlinePositions(Len(text))
      from == IF n = 0 THEN 0
              ELSE CHOOSE i \in nl : Cardinality({j \in nl : j <= i}) = n
      rest == {i \in nl : i > from}
      to == IF rest = {} THEN Len(text) + 1 ELSE Min(rest)
  IN SubSeq(text, from + 1, to - 1)

\* The indices of the tokens the filter keeps.
Kept == {i \in 1..Len(tokens) : tokens[i].tokenType \notin filterTypes}

\* ------------------------------------------------------------------ claims
\* C1: with no zero-width rule and no filter, tokenize ends in exactly one
\* of two ways: it returns tokens whose lexemes concatenate to the text, or
\* it raises a lexical error; never both, and a started call always ends.
C1_Outcome ==
  (NoZeroWidth /\ filterTypes = {}) =>
    /\ pc = "returned" => /\ result # <<>>
                          /\ error = <<>>
                          /\ Concat(result[1]) = text
    /\ pc = "thrown" => (error # <<>> /\ result = <<>>)
    /\ ~(result # <<>> /\ error # <<>>)

C1_TokenizeTotal ==
  /\ []C1_Outcome
  /\ (pc = "scanning" /\ NoZeroWidth /\ filterTypes = {})
        ~> (pc \in {"returned", "thrown"})

C1_Witness ==
  /\ pc = "returned"
  /\ NoZeroWidth
  /\ filterTypes = {}
  /\ Len(result[1]) >= 2
  /\ Len(text) = MaxLen

\* C2: longest-match law: when rules match at an offset with different
\* lengths, the emitted token has the category and lexeme of a rule whose
\* match is of maximal length, whatever the registration order.
C2_LongestMatch ==
  pc = "scanning" =>
    \A i \in 1..Len(tokens) :
      LET k == tokens[i].start IN
      (\E j1, j2 \in Candidates(k) : CandLen(j1, k) # CandLen(j2, k)) =>
        \E j \in Longest(k) :
          /\ tokens[i].tokenType = templates[j].tokenType
          /\ tokens[i].lexeme = Anchored(j, k)[1]

C2_Witness ==
  /\ pc = "scanning"
  /\ \E i \in 1..Len(tokens) :
       \E j1, j2 \in Candidates(tokens[i].start) :
         /\ j1 < j2
         /\ CandLen(j1, tokens[i].start) < CandLen(j2, tokens[i].start)
         /\ tokens[i].tokenType = templates[j2].tokenType
         /\ tokens[i].tokenType # templates[j1].tokenType

\* C3: tie-break law: among the rules whose anchored matches share the
\* maximal length, the emitted token uses the earliest registered one.
C3_TieBreak ==
  pc = "scanning" =>
    \A i \in 1..Len(tokens) :
      LET k == tokens[i].start IN
      Cardinality(Longest(k)) >= 2 =>
        tokens[i].tokenType = templates[Min(Longest(k))].tokenType

C3_Witness ==
  /\ pc = "scanning"
  /\ \E i \in 1..Len(tokens) :
       \E j1, j2 \in Longest(tokens[i].start) :
         /\ j2 > j1 + 1
         /\ templates[j1].tokenType # templates[j2].tokenType
         /\ tokens[i].tokenType = templates[j1].tokenType

\* C4: position law: a returned unfiltered sequence starts at offset 0, is
\* contiguous (each token starts where the previous one ends) and ends at
\* the length of the text.
C4_PositionLaw ==
  (pc = "returned" /\ filterTypes = {}) =>
    LET r == result[1] IN
    /\ Len(r) > 0 => (r[1].start = 0 /\ r[Len(r)].end = Len(text))
    /\ \A i \in 1..(Len(r) - 1) : r[i + 1].start = r[i].end

C4_Witness ==
  /\ pc = "returned"
  /\ filterTypes = {}
  /\ Len(result[1]) = MaxLen

\* C5: newline law: the token following a token whose lexeme contains a
\* newline (anywhere in it) has a line equal to the newlines seen so far and
\* a column counting the characters after the last newline.
C5_NewlineLaw ==
  pc = "scanning" =>
    \A i \in 1..(Len(tokens) - 1) :
      HasNewline(tokens[i].lexeme) =>
        /\ tokens[i + 1].line = NewlinesBefore(tokens[i + 1].end)
        /\ tokens[i + 1].column = CharsSinceNewline(tokens[i + 1].end)

\* C6: every returned token's column is the number of characters between
\* the last newline before its end offset (or the start of the text) and
\* its end offset.
C6_ColumnOfToken ==
  pc = "returned" =>
    \A i \in 1..Len(result[1]) :
      result[1][i].column = CharsSinceNewline(result[1][i].end)

\* C7: filter law: the returned sequence is the unfiltered sequence without
\* the tokens of a filtered category: the k-th returned token is the k-th
\* kept token, with all its fields.
C7_FilterLaw ==
  pc = "returned" =>
    LET r == result[1] IN
    /\ Len(r) = Cardinality(Kept)
    /\ \A k \in 1..Len(r) :
         \E i \in Kept : /\ Cardinality({j \in Kept : j <= i}) = k
                          /\ r[k] = tokens[i]

C7_Witness ==
  /\ pc = "returned"
  /\ Len(result[1]) >= 2
  /\ Len(result[1]) < Len(tokens)

\* C8: tokenize raises exactly when the scan is at an offset below the
\* length of the text at which no rule matches anchored; a rule matching
\* only further on does not prevent the error.
C8_ErrorIff ==
  [][ pc = "scanning" =>
        ((pc' = "thrown") <=> (start < Len(text) /\ Candidates(start) = {})) ]_vars

C8_Witness ==
  /\ pc = "thrown"
  /\ start > 0
  /\ \E j \in 1..Len(templates) :
       regexMatch(slice(text, start), templates[j].regexPattern).index > 0

\* C9: the raised error's line and column equal the tokenizer's line and
\* column at the failing offset, and its excerpt is the line of the text
\* with that number.
C9_ErrorFields ==
  pc = "thrown" =>
    /\ error[1].line = line
    /\ error[1].column = column
    /\ error[1].excerpt = LineOfText(line)

\* C10: a lexical error is fatal: where no rule matches, the call raises at
\* once without producing a token, no token starts at or after the failing
\* offset, and the caller receives no token sequence.
C10_ErrorFatal ==
  /\ [](pc = "thrown" => /\ result = <<>>
                         /\ \A i \in 1..Len(tokens) : tokens[i].start < start)
  /\ [][ (pc = "scanning" /\ start < Len(text) /\ Candidates(start) = {}) =>
          (pc' = "thrown" /\ result' = <<>> /\ tokens' = tokens) ]_vars

C10_Witness ==
  /\ pc = "thrown"
  /\ Len(tokens) >= 2
  /\ result = <<>>

C13_HistoryIndependent ==
  [][ (pc = "scanning" /\ pc' \in {"returned", "thrown"}) =>
        [pc |-> pc', result |-> result', error |-> error']
          = freshTokenize(templates, text, filterTypes) ]_allVars

C13_Witness ==
  /\ prev = "thrown"
  /\ pc = "returned"
  /\ Len(result[1]) >= 2
  /\ line > 0

\* C14: every token the tokenizer produces, candidate or emitted, has
\* end - start = length(lexeme) and its lexeme is text[start, end).
TokenSpansLexeme(t) ==
  /\ t.end - t.start = Len(t.lexeme)
  /\ t.lexeme = SubSeq(text, t.start + 1, t.end)

C14_TokenSpan ==
  pc = "scanning" =>
    /\ \A i \in 1..Len(tokens) : TokenSpansLexeme(tokens[i])
    /\ \A j \in 1..Len(templates) :
         match(templates[j], text) # Null =>
           TokenSpansLexeme(match(templates[j], text))

C14_Witness ==
  /\ pc = "scanning"
  /\ start > 0
  /\ Len(tokens) >= 1
  /\ \E j \in 1..Len(templates) :
       /\ match(templates[j], text) # Null
       /\ length(match(templates[j], text)) >= 2

\* C15: whatever sequence of reset, parse prologue, advance (called only
\* while not at the end), match, consume (succeeding or failing), addError
\* and lookups a grammar makes, the position stays within 0 and the number
\* of tokens, both included.
C15_PositionInRange ==
  /\ currentPosition >= 0
  /\ currentPosition <= Len(parserTokens)

\* A consume has just failed at the end of a sequence of two tokens or more.
C15_Witness ==
  /\ call.op = "consume"
  /\ call.thrown # <<>>
  /\ Len(parserTokens) >= 2
  /\ currentPosition = Len(parserTokens)

\* The token at the position exists and is of category c.
CurrentIs(c) ==
  /\ currentPosition >= 0
  /\ currentPosition < Len(parserTokens)
  /\ parserTokens[currentPosition + 1].tokenType = c

\* C16: a consume(c, m) made when the current token is not of category c
\* (or there is none: at the end, or on an empty sequence) leaves the
\* position and the tokens as they were, appends exactly one message to
\* the error list, returns nothing and raises an error.
C16_FailedConsume ==
  [][ \A c \in Identifiers, m \in Messages :
        (call'.op = "consume" /\ ConsumeCall(c, m) /\ ~CurrentIs(c)) =>
          /\ currentPosition' = currentPosition
          /\ parserTokens' = parserTokens
          /\ Len(errors') = Len(errors) + 1
          /\ SubSeq(errors', 1, Len(errors)) = errors
          /\ call'.ret = <<>>
          /\ call'.thrown # <<>> ]_allVars

\* A consume has failed in the middle of the tokens, on a token of another
\* category, with an error already on the list.
C16_Witness ==
  /\ call.op = "consume"
  /\ call.thrown # <<>>
  /\ currentPosition > 0
  /\ currentPosition < Len(parserTokens)
  /\ Len(errors) = 2

\* The fragments of sub occur, in a row, in s.
Contains(s, sub) ==
  \E i \in 0..(Len(s) - Len(sub)) : SubSeq(s, i + 1, i + Len(sub)) = sub

\* C17: when consume(c, m) fails, the message it appends to the error list
\* and the message of the error it raises are one and the same string; that
\* string contains m, and it is what makeErrorMsg(m) yields at the position
\* consume found and left.
C17_DualChannel ==
  [][ \A c \in Identifiers, m \in Messages :
        (call'.op = "consume" /\ ConsumeCall(c, m) /\ ~CurrentIs(c)) =>
          /\ Len(errors') > 0
          /\ call'.thrown = <<errors'[Len(errors')]>>
          /\ Contains(errors'[Len(errors')], m)
          /\ call'.thrown = <<makeErrorMsg(m)>>
          /\ currentPosition' = currentPosition ]_allVars

\* A consume has failed after a token that ends beyond the first line of
\* the source, and the list ends with the message of the raised error.
C17_Witness ==
  /\ call.op = "consume"
  /\ call.thrown # <<>>
  /\ Len(errors) > 0
  /\ call.thrown = <<errors[Len(errors)]>>
  /\ previous # Null
  /\ previous.line > 0
  /\ Contains(call.thrown[1], <<"Expected digit">>)

\* C18: a consume(c, m) made when the current token is of category c does
\* what advance does: it returns the token at the position, moves the
\* position forward by exactly one, raises nothing and leaves the error
\* list (and the tokens) as they were.
C18_ConsumeAdvances ==
  [][ \A c \in Identifiers, m \in Messages :
        (call'.op = "consume" /\ ConsumeCall(c, m) /\ CurrentIs(c)) =>
          /\ call'.ret = <<parserTokens[currentPosition + 1]>>
          /\ call'.ret = <<advance.ret>>
          /\ call'.thrown = <<>>
          /\ currentPosition' = currentPosition + 1
          /\ currentPosition' = advance.position
          /\ errors' = errors
          /\ parserTokens' = parserTokens ]_allVars

\* A consume has returned the second token or a later one, with an error
\* on the list from before.
C18_Witness ==
  /\ call.op = "consume"
  /\ call.ret # <<>>
  /\ currentPosition >= 2
  /\ call.ret = <<parserTokens[currentPosition]>>
  /\ Len(errors) >= 1

\* The category of the token at the position is one of the identifiers.
CurrentAmong(identifiers) ==
  \E i \in 1..Len(identifiers) : CurrentIs(identifiers[i])

\* C19: match(c1, ..., cn) returns true and moves the position forward by
\* exactly one when the current token's category is among its arguments;
\* otherwise it returns false and the position stays.  One call never moves
\* the position by more than one, whatever the later arguments are, and
\* it never moves it at the end of the tokens.
C19_MatchStep ==
  [][ \A identifiers \in IdentifierLists :
        (call'.op = "match" /\ MatchCall(identifiers)) =>
          /\ CurrentAmong(identifiers) =>
               call'.ret = <<TRUE>> /\ currentPosition' = currentPosition + 1
          /\ ~CurrentAmong(identifiers) =>
               call'.ret = <<FALSE>> /\ currentPosition' = currentPosition
          /\ currentPosition' - currentPosition \in {0, 1}
          /\ currentPosition >= Len(parserTokens) =>
               currentPosition' = currentPosition
          /\ errors' = errors
          /\ parserTokens' = parserTokens ]_allVars

\* A match of two categories has advanced over a token of the first onto a
\* token of the second, and stopped there.
C19_Witness ==
  /\ call.op = "match"
  /\ call.ret = <<TRUE>>
  /\ Len(call.args) = 2
  /\ previous # Null
  /\ current # Null
  /\ previous.tokenType = call.args[1]
  /\ current.tokenType = call.args[2]
  /\ call.args[1] # call.args[2]

\* C20: a reset, whatever the position, the tokens and the recorded errors
\* it finds, leaves the position at 0, no tokens and no errors, so that
\* right after it hadError is false and isAtEnd is true.
C20_ResetClears ==
  [][ call'.op = "reset" =>
        /\ currentPosition' = 0
        /\ parserTokens' = <<>>
        /\ errors' = <<>>
        /\ ~hadError'
        /\ isAtEnd' ]_allVars

\* A reset has been made on a cursor that had parsed a source of several
\* lines, and the cursor stands cleared.
C20_Witness ==
  /\ call.op = "reset"
  /\ includes(source, NEWLINE)
  /\ Len(source) = MaxLen
  /\ currentPosition = 0
  /\ parserTokens = <<>>
  /\ ~hadError
  /\ isAtEnd

\* C21: in a walk of n advance calls from position 0 over any token
\* sequence, with n below the number of tokens, lookAround(0) is the token
\* of 0-based index n and lookAround(-1) the token of index n - 1 (none when
\* n = 0); and the i-th advance call of the walk returned the token of
\* index i - 1.
C21_WalkLaw ==
  [][ /\ advances' < Len(parserTokens') =>
           /\ lookAround(0)' = parserTokens'[advances' + 1]
           /\ lookAround(-1)' =
                IF advances' = 0 THEN Null ELSE parserTokens'[advances']
      /\ call'.op = "advance" =>
           call'.ret = <<parserTokens'[advances']>> ]_allVars

\* Two advance calls have been made over three tokens.
C21_Witness ==
  /\ call.op = "advance"
  /\ advances = 2
  /\ Len(parserTokens) = 3
  /\ currentPosition = 2

\* C22: an advance made at a position p below the number of tokens returns
\* the token of index p and leaves the position at exactly p + 1; the
\* tokens and the error list stay as they were.
C22_AdvanceStep ==
  [][ (call'.op = "advance" /\ Advance) =>
        /\ currentPosition < Len(parserTokens)
        /\ call'.ret = <<parserTokens[currentPosition + 1]>>
        /\ call'.thrown = <<>>
        /\ currentPosition' = currentPosition + 1
        /\ parserTokens' = parserTokens
        /\ errors' = errors ]_allVars

\* An advance has returned the last of several tokens while the error list
\* was full.
C22_Witness ==
  /\ call.op = "advance"
  /\ Len(parserTokens) >= 2
  /\ currentPosition = Len(parserTokens)
  /\ call.ret = <<parserTokens[currentPosition]>>
  /\ Len(errors) = MaxErrors

\* The offsets looked at: far enough to leave the tokens on both sides.
Offsets == (0 - (MaxLen + 1))..(MaxLen + 1)

\* The token at the position moved by offset, or none.
TokenAtOffset(offset) ==
  IF /\ 0 <= currentPosition + offset
     /\ currentPosition + offset < Len(parserTokens)
  THEN parserTokens[currentPosition + offset + 1]
  ELSE Null

\* C23: lookAround(offset) is the token of index position + offset when
\* that index is within the tokens, and none when it is negative or not
\* below the number of tokens; a lookAround call returns that and raises
\* nothing.
C23_LookAround ==
  /\ \A offset \in Offsets : lookAround(offset) = TokenAtOffset(offset)
  /\ call.op = "lookAround" =>
       /\ call.thrown = <<>>
       /\ call.ret = <<TokenAtOffset(call.args[1])>>

\* lookAround(-1) has returned none at position 0 of several tokens, while
\* lookAround(2) would return a token.
C23_Witness ==
  /\ call.op = "lookAround"
  /\ call.args = <<-1>>
  /\ call.ret = <<Null>>
  /\ currentPosition = 0
  /\ Len(parserTokens) = 3
  /\ lookAround(2) = parserTokens[3]

\* C24: in every cursor state previous, current, peek and peekNext are what
\* lookAround gives for the offsets -1, 0, 1 and 2: the tokens there, or
\* none at the boundaries (previous at position 0, current at the end, peek
\* on the last token, peekNext on either of the last two).
C24_Aliases ==
  /\ previous = lookAround(-1) /\ previous = TokenAtOffset(-1)
  /\ current = lookAround(0) /\ current = TokenAtOffset(0)
  /\ peek = lookAround(1) /\ peek = TokenAtOffset(1)
  /\ peekNext = lookAround(2) /\ peekNext = TokenAtOffset(2)
  /\ currentPosition = 0 => previous = Null
  /\ currentPosition >= Len(parserTokens) => current = Null
  /\ currentPosition >= Len(parserTokens) - 1 => peek = Null
  /\ currentPosition >= Len(parserTokens) - 2 => peekNext = Null

\* The cursor stands on the last of three tokens: previous and current are
\* tokens, peek and peekNext are none.
C24_Witness ==
  /\ Len(parserTokens) = 3
  /\ currentPosition = 2
  /\ previous = parserTokens[2]
  /\ current = parserTokens[3]
  /\ peek = Null
  /\ peekNext = Null

\* C25: check(c) is true exactly when the cursor is not at the end and the
\* token at the position is of category c; at the end of the tokens, and so
\* on an empty sequence, it is false for every category.
C25_Check ==
  /\ \A c \in Identifiers \cup GrammarFilter : check(c) <=> CurrentIs(c)
  /\ currentPosition >= Len(parserTokens) =>
       \A c \in Identifiers \cup GrammarFilter : ~check(c)

\* The cursor stands on a DIGIT token that follows a LETTER token: check
\* holds for DIGIT and not for LETTER.
C25_Witness ==
  /\ currentPosition > 0
  /\ currentPosition < Len(parserTokens)
  /\ parserTokens[currentPosition].tokenType = "LETTER"
  /\ parserTokens[currentPosition + 1].tokenType = "DIGIT"
  /\ check("DIGIT")
  /\ ~check("LETTER")

\* C26: isAtEnd is true exactly when the position is not below the number
\* of tokens: true whenever there are no tokens, false at every position
\* below the number of tokens.
C26_IsAtEnd ==
  /\ isAtEnd <=> currentPosition >= Len(parserTokens)
  /\ parserTokens = <<>> => isAtEnd
  /\ currentPosition < Len(parserTokens) => ~isAtEnd

\* A match has moved the cursor onto the end of several tokens.
C26_Witness ==
  /\ call.op = "match"
  /\ call.ret = <<TRUE>>
  /\ Len(parserTokens) >= 2
  /\ currentPosition = Len(parserTokens)
  /\ isAtEnd

\* C27: addError(message) puts exactly that message at the end of the error
\* list, returns an error carrying the same message and leaves the position
\* and the tokens as they were; and hadError is true exactly when a soft
\* error (an addError or a failed consume) has been recorded since the last
\* reset.
C27_AddError ==
  [][ /\ call'.op = "addError" =>
           /\ errors' = Append(errors, call'.args[1])
           /\ call'.ret = call'.args
           /\ call'.thrown = <<>>
           /\ currentPosition' = currentPosition
           /\ parserTokens' = parserTokens
      /\ hadError' <=>
           IF call'.op \in {"reset", "parse"} THEN FALSE
           ELSE IF call'.op = "addError" THEN TRUE
           ELSE IF call'.op = "consume" /\ call'.thrown # <<>> THEN TRUE
           ELSE hadError ]_allVars

\* An addError has put a second, different message after the first, in the
\* middle of the tokens.
C27_Witness ==
  /\ call.op = "addError"
  /\ Len(errors) = 2
  /\ errors[2] = call.args[1]
  /\ errors[1] \in Messages
  /\ errors[1] # errors[2]
  /\ currentPosition > 0
  /\ hadError

\* The line and column makeErrorMsg is to report: those of the token just
\* before the position, or 0 and 0 at position 0.
ReportedLine ==
  IF currentPosition = 0 THEN 0 ELSE parserTokens[currentPosition].line

ReportedColumn ==
  IF currentPosition = 0 THEN 0 ELSE parserTokens[currentPosition].column

\* The marker line: as many fillers as the column, then one caret.
MarkerLine == [i \in 1..(ReportedColumn + 1) |->
                 IF i <= ReportedColumn THEN MINUS ELSE CARET]

\* The excerpt: the reported line of the source, or the whole source when
\* it has no newline.
ExcerptLine ==
  IF HasNewline(source) THEN split(source, NEWLINE)[ReportedLine + 1]
  ELSE source

\* s ends with the fragments of sub.
EndsWith(s, sub) ==
  /\ Len(sub) <= Len(s)
  /\ SubSeq(s, Len(s) - Len(sub) + 1, Len(s)) = sub

C29_TrackersAgree ==
  Len(tokens) > 0 =>
    /\ line = tokens[Len(tokens)].line
    /\ column = tokens[Len(tokens)].column

\* A step of the loop that accepts a token: the token is the new last one.
Accepts ==
  /\ pc = "scanning"
  /\ Len(tokens') = Len(tokens) + 1

\* C30 as stated: on accepting a token whose recorded line differs from the
\* tracker's line, the column tracker becomes 0 plus the consumed width
\* (end - start); otherwise it grows by the consumed width.
C30_ResetAddsWidth ==
  [][ Accepts =>
        LET token == tokens'[Len(tokens')]
        IN column' = IF token.line # line
                     THEN 0 + (token.end - token.start)
                     ELSE column + (token.end - token.start) ]_vars

\* C30, amended: on accepting a token whose recorded line differs from the
\* tracker's line, the column tracker becomes 0 and the consumed width is
\* not added; otherwise it grows by the consumed width (end - start).
C30_ResetOrAddWidth ==
  [][ Accepts =>
        LET token == tokens'[Len(tokens')]
        IN column' = IF token.line # line
                     THEN 0
                     ELSE column + (token.end - token.start) ]_vars

\* A token one line further than the token before it has been accepted
\* after a token that had moved the column, and the column tracker is 0.
C30_Witness ==
  /\ pc = "scanning"
  /\ Len(tokens) >= 2
  /\ tokens[Len(tokens)].line # tokens[Len(tokens) - 1].line
  /\ tokens[Len(tokens) - 1].end > tokens[Len(tokens) - 1].start
  /\ tokens[Len(tokens) - 1].column > 0
  /\ column = 0

\* C31: every token tokenize returns has as its line the number of newlines
\* in the text before its end offset (a newline token is recorded on the
\* line after it); and during a pass the line tracker never decreases and
\* is the number of newlines before the scan offset.
C31_LineLaw ==
  [][ /\ pc' = "scanning" =>
           /\ line' = NewlinesBefore(start)'
           /\ \A i \in 1..Len(tokens') :
                tokens'[i].line = NewlinesBefore(tokens[i].end)'
      /\ (pc = "scanning" /\ pc' = "scanning") => line' >= line
      /\ pc' = "returned" =>
           \A i \in 1..Len(result'[1]) :
             result'[1][i].line = NewlinesBefore(result[1][i].end)' ]_vars

\* A call has returned a newline token recorded on line 1 and, after it, a
\* token whose lexeme holds a further newline.
C31_Witness ==
  /\ pc = "returned"
  /\ Len(result[1]) >= 2
  /\ result[1][1].lexeme = <<NEWLINE>>
  /\ result[1][1].line = 1
  /\ HasNewline(result[1][2].lexeme)
  /\ result[1][2].line = 2

\* C32: when no rule can match zero characters, every accepting iteration
\* moves the scan offset strictly forward and never beyond the end of the
\* text, a call that returns has reached the end of the text, and every
\* started call ends: it returns or it raises a lexical error.
C32_Terminates ==
  /\ [][ NoZeroWidth =>
           /\ Accepts => (start' > start /\ start' <= Len(text))
           /\ (pc = "scanning" /\ pc' = "returned") => start = Len(text)
           /\ (pc = "scanning" /\ pc' = "thrown") => start < Len(text) ]_vars
  /\ (pc = "scanning" /\ NoZeroWidth) ~> (pc \in {"returned", "thrown"})

\* A call with no zero-width rule has raised at the last character of a
\* text after accepting two tokens.
C32_Witness ==
  /\ pc = "thrown"
  /\ NoZeroWidth
  /\ Len(text) = MaxLen
  /\ start = MaxLen - 1
  /\ Len(tokens) = 2

\* The best match at the scan offset is empty: some rule matches there, and
\* none matches a character.
Stuck ==
  /\ pc = "scanning"
  /\ start < Len(text)
  /\ Candidates(start) # {}
  /\ MaxCandLen(start) = 0

\* C33: zero-width matches are not guarded against.  Where the best match
\* at the scan offset is empty, the iteration accepts an empty token and
\* leaves the offset where it was; the call neither raises nor returns, so
\* the same iteration comes again, without end (here: until the token list
\* is MaxTokens long).  Where some rule matches a character at the offset,
\* the accepted token is not empty and the offset moves forward.
C33_ZeroWidthLoop ==
  /\ [][ /\ Stuck =>
              /\ pc' = "scanning"
              /\ start' = start
              /\ Stuck'
              /\ Accepts => tokens'[Len(tokens')].lexeme = <<>>
         /\ ( /\ pc = "scanning"
              /\ start < Len(text)
              /\ Candidates(start) # {}
              /\ MaxCandLen(start) > 0
              /\ Accepts ) =>
              /\ Len(tokens'[Len(tokens')].lexeme) = MaxCandLen(start)
              /\ start' > start ]_vars
  /\ Stuck ~> (Stuck /\ Len(tokens) = MaxTokens)

\* The scan has accepted a token of one character or more and then, at a
\* later offset, an empty token again and again.
C33_Witness ==
  /\ Stuck
  /\ start > 0
  /\ Len(tokens) = MaxTokens
  /\ tokens[1].lexeme # <<>>
  /\ tokens[Len(tokens)].lexeme = <<>>
  /\ tokens[Len(tokens) - 1].lexeme = <<>>

\* The rules registered under the category of a token.
RulesOf(token) ==
  {j \in 1..Len(templates) : templates[j].tokenType = token.tokenType}

\* The token's value is what its rule prescribes: the callback applied to
\* the token's own lexeme, or no value when the rule has no callback.
ValueFromRule(token) ==
  /\ RulesOf(token) # {}
  /\ \A j \in RulesOf(token) :
       token.value = IF templates[j].callback = "undefined" THEN {}
                     ELSE {applyCallback(templates[j].callback, token.lexeme)}

\* C34: an emitted token carries a value exactly when its rule was
\* registered with a transform, and the value is the transform of the
\* token's own lexeme; a token of a rule without a transform has no value,
\* also when a rule with a transform matched at the same offset and lost.
C34_ValueLaw ==
  /\ pc = "scanning" => \A i \in 1..Len(tokens) : ValueFromRule(tokens[i])
  /\ pc = "returned" =>
       \A i \in 1..Len(result[1]) : ValueFromRule(result[1][i])

\* A scan has reached the end of the text with two tokens: the first has no
\* value and comes from a rule without a transform, while a rule with a
\* transform matched at offset 0 and lost; the second has a value.
C34_Witness ==
  /\ pc = "scanning"
  /\ start = Len(text)
  /\ Len(tokens) = 2
  /\ tokens[1].value = {}
  /\ \E j \in Candidates(0) :
       /\ templates[j].callback # "undefined"
       /\ templates[j].tokenType # tokens[1].tokenType
  /\ tokens[2].value # {}


\* The emitted tokens of the current pass that carry a callback's value.
Transformed == { i \in 1..Len(tokens) : tokens[i].value # {} }

\* C35: during tokenize a rule's callback is invoked only for the winning
\* match: the invocations made so far are, one for one, the emitted tokens
\* of rules that have a callback, and none was made for a rule whose
\* anchored match lost the selection at its offset.
C35_OnlyWinner ==
  pc = "scanning" =>
    /\ Len(invocations) = Cardinality(Transformed)
    /\ \A k \in 1..Len(invocations) :
         \E i \in Transformed :
           /\ tokens[i].tokenType = invocations[k].tokenType
           /\ tokens[i].start = invocations[k].start


\* The overrides that always keep the current best / always take the other.
KeepFirst == [i \in 1..Len(templates) |-> TRUE]

TakeOther == [i \in 1..Len(templates) |-> FALSE]

\* The token is the anchored match of the j-th rule at its own offset.
IsAnchoredMatch(token, j) ==
  /\ j \in Candidates(token.start)
  /\ token.tokenType = templates[j].tokenType
  /\ token.lexeme = Anchored(j, token.start)[1]

\* C36: with best overridden by any function returning one of its two
\* arguments, and no zero-width rule: every emitted token is an anchored
\* match of some rule at its offset; the candidates are folded in
\* registration order (keeping the first argument yields the earliest
\* registered candidate, taking the second the latest); the tokens are
\* contiguous from offset 0 and their lexemes are the text read so far, the
\* whole text when the call returns; and the call raises exactly when no
\* rule matches at an offset below the length of the text.
C36_BestReplaceable ==
  /\ [](( pc = "scanning" /\ NoZeroWidth) =>
          /\ \A i \in 1..Len(tokens) :
               \E j \in 1..Len(templates) : IsAnchoredMatch(tokens[i], j)
          /\ \A i \in 1..Len(tokens) :
               /\ tokens[i].start = (IF i = 1 THEN 0 ELSE tokens[i - 1].end)
               /\ tokens[i].end = tokens[i].start + Len(tokens[i].lexeme)
          /\ start = (IF tokens = <<>> THEN 0 ELSE tokens[Len(tokens)].end)
          /\ Concat(tokens) = SubSeq(text, 1, start)
          /\ (start < Len(text) /\ Candidates(start) # {}) =>
               /\ bestOfWith(KeepFirst, 1, Null).tokenType
                    = templates[Min(Candidates(start))].tokenType
               /\ bestOfWith(TakeOther, 1, Null).tokenType
                    = templates[Max(Candidates(start))].tokenType)
  /\ []((pc = "returned" /\ NoZeroWidth /\ filterTypes = {}) =>
          Concat(result[1]) = text)
  /\ [][ (pc = "scanning" /\ NoZeroWidth) =>
           /\ (pc' = "thrown")
                <=> (start < Len(text) /\ Candidates(start) = {})
           /\ (pc' = "returned") <=> (start = Len(text))
           /\ Accepts => (start' > start /\ start' <= Len(text)) ]_vars

\* A call under an override has returned a token that the default policy
\* would not have emitted: a shorter match of a later rule was preferred.
C36_Witness ==
  /\ pc = "returned"
  /\ NoZeroWidth
  /\ filterTypes = {}
  /\ Len(result[1]) >= 2
  /\ \E j \in Candidates(0) :
       /\ j > Min(Candidates(0))
       /\ CandLen(j, 0) < MaxCandLen(0)
       /\ IsAnchoredMatch(result[1][1], j)
       /\ \A l \in Longest(0) : ~IsAnchoredMatch(result[1][1], l)


\* C37: the accessors: a freshly constructed tokenizer has start, line and
\* column 0; when tokenize has returned, start is the length of the text,
\* line the number of newlines in it and column the number of characters
\* after its last newline; when tokenize raises, start is the offset at
\* which no rule matched.
C37_Accessors ==
  /\ [](pc = "ready" => (start = 0 /\ line = 0 /\ column = 0))
  /\ [](pc = "returned" =>
          /\ start = Len(text)
          /\ line = NewlinesBefore(Len(text))
          /\ column = CharsSinceNewline(Len(text)))
  /\ [][ (pc = "scanning" /\ pc' = "thrown") =>
           (start' < Len(text) /\ Candidates(start') = {}) ]_vars


\* The operations of the cursor that only look.
LookupOps ==
  {"lookAround", "isAtEnd", "hadError", "check", "makeErrorMsg"}

\* C38: the lookups (isAtEnd, lookAround and its aliases, check, hadError,
\* makeErrorMsg) leave position, tokens and errors as they were; the
\* position changes only in advance, a match that returned true, a consume
\* that returned, and reset (alone or as the first step of parse); the
\* error list changes only in addError, a consume that raised, and reset.
C38_Frame ==
  [][ /\ call'.op \in LookupOps =>
           UNCHANGED <<parserTokens, currentPosition, errors>>
      /\ currentPosition' # currentPosition =>
           \/ call'.op \in {"advance", "reset", "parse"}
           \/ call'.op = "match" /\ call'.ret = <<TRUE>>
           \/ call'.op = "consume" /\ call'.thrown = <<>>
      /\ errors' # errors =>
           \/ call'.op \in {"addError", "reset", "parse"}
           \/ call'.op = "consume" /\ call'.thrown # <<>> ]_allVars

\* makeErrorMsg has been called in the middle of a token sequence with an
\* error on record.
C38_Witness ==
  /\ call.op = "makeErrorMsg"
  /\ currentPosition > 0
  /\ currentPosition < Len(parserTokens)
  /\ Len(errors) = 1


\* The step records a soft error: an addError call or a consume that raised.
RecordsError ==
  \/ call'.op = "addError"
  \/ call'.op = "consume" /\ call'.thrown # <<>>

\* The message such a step records.
Recorded == IF call'.op = "addError" THEN call'.args[1] ELSE call'.thrown[1]

\* C39: soft errors accumulate across hard errors: a step that is not a
\* reset keeps the error list when it records no error and appends exactly
\* the one message when it is an addError or a failed consume, so the list
\* holds the errors in the order they occurred; and a failed consume leaves
\* the cursor usable: the position is unchanged, and an advance right after
\* it returns the token there and moves to the next one.
C39_ErrorsAccumulate ==
  [][ /\ call'.op \notin {"reset", "parse"} =>
           errors' = IF RecordsError THEN Append(errors, Recorded)
                     ELSE errors
      /\ (call'.op = "consume" /\ call'.thrown # <<>>) =>
           /\ currentPosition' = currentPosition
           /\ parserTokens' = parserTokens
      /\ (call.op = "consume" /\ call.thrown # <<>> /\ call'.op = "advance") =>
           /\ call'.ret = <<parserTokens[currentPosition + 1]>>
           /\ currentPosition' = currentPosition + 1 ]_allVars

\* After an addError and then a failed consume, whose messages are on
\* record in that order, an advance has moved the cursor on.
C39_Witness ==
  /\ call.op = "advance"
  /\ Len(errors) = 2
  /\ errors[1] \in Messages
  /\ errors[2] \notin Messages
  /\ currentPosition >= 1
  /\ call.ret = <<parserTokens[currentPosition]>>


\* C40: the TileScript grammar's parse terminates on every token sequence:
\* a synchronize run after a failed parseStatement leaves the position
\* beyond the one the iteration started at, or at the end of the tokens,
\* and a parse that has entered its loop leaves it.
C40_ParseTerminates ==
  /\ [][ call'.op = "synchronize" =>
           (currentPosition' > call'.args[1] \/ isAtEnd') ]_allVars
  /\ (call.op = "parse") ~> (call.op = "return")

====
